---- MODULE Spec2Model ----
(***************************************************************************)
(* GolfSkinsAnalyzer (src/src/skins.js): the React component that reads a  *)
(* round of golf scores, computes the skins of nine holes and keeps the    *)
(* outcome in four useState cells.                                         *)
(*                                                                         *)
(* Numbers.  The text of a numeric cell is kept as an integer count of     *)
(* quarters (Quarter), so "4.5" is 18.  parseFloat turns it into a count   *)
(* of eighths (Unit), so that fullHandicap / 2 is exact: a fullHandicap of *)
(* 4.5 is 36 and its halfHandicap, 2.25, is 18.  Gross and net scores are  *)
(* whole numbers (parseInt truncates) and are kept as plain integers.  NaN *)
(* and Infinity are two reserved integers with the arithmetic of the       *)
(* JavaScript values.                                                      *)
(*                                                                         *)
(* State updates.  analyzeSkins calls setPlayers, setHoleHandicaps and     *)
(* setSkinsResults from a Papa.parse callback or after an await, never     *)
(* from a React event handler.  A React that batches such updates renders  *)
(* them as one; a React that does not renders after each of them.  The     *)
(* source does not fix which React it is built with, so batching is either *)
(* from the start.  JavaScript runs each callback to its end: while an     *)
(* analysis is between two updates nothing else runs.                      *)
(***************************************************************************)
EXTENDS Integers, Sequences, FiniteSets, TLC

VARIABLES
    players,        \* useState([])   : sequence of player objects
    skinsResults,   \* useState({})   : hole number -> hole result
    error,          \* useState(null) : "null" or the message
    holeHandicaps,  \* useState([])
    batching,       \* whether the React build batches state updates made
                    \* outside React event handlers (fixed by the build)
    defaultLoad,    \* position of loadDefaultData: "pending" or "done"
    uploadsInFlight,\* Papa.parse(file, ...) calls whose callback is due
    cont,           \* analyzeSkins between two unbatched state updates
    last,           \* history of the last completed analysis: its caller,
                    \* whether its data was the probe, and the (player, hole)
                    \* pairs whose score cell was no number
    uploadOut,      \* history: outcome of the last analysis of an upload
    probe,          \* history: an input table, fixed for the behaviour
    probeOut,       \* history: outcome of the first analysis of probe
    halfHandicapArg,\* calculateStrokesReceived called on its own:
    holeHandicapArg,\*   its two arguments
    strokesRet      \*   and its return value (<<>> before the call)

vars == <<players, skinsResults, error, holeHandicaps, batching, defaultLoad,
          uploadsInFlight, cont, last, uploadOut, probe, probeOut,
          halfHandicapArg, holeHandicapArg, strokesRet>>

componentVars == <<players, skinsResults, error, holeHandicaps, batching,
                   defaultLoad, uploadsInFlight, cont, last, uploadOut,
                   probe, probeOut>>

strokeVars == <<halfHandicapArg, holeHandicapArg, strokesRet>>

----------------------------------------------------------------------------
(* Bounds of the model *)

MaxRows == 2          \* rows of an uploaded table
MaxInFlight == 1      \* uploads being read at the same time
MaxHalfHandicap == 6  \* largest halfHandicap given to the stroke rule alone
MaxHoleHandicap == 18 \* largest hole handicap given to the stroke rule alone

----------------------------------------------------------------------------
(* JavaScript numbers *)

Quarter == 4
Unit == 2 * Quarter
NaN == -1000
Infinity == 1000
NumHoles == 9

IsNaN(x) == x = NaN

\* a - b on JavaScript numbers (b is always finite here)
Minus(a, b) == IF IsNaN(a) THEN NaN ELSE a - b

\* a === b on JavaScript numbers: NaN equals nothing, not even itself
StrictEquals(a, b) == ~IsNaN(a) /\ ~IsNaN(b) /\ a = b

\* Math.min(...xs): Infinity of nothing, NaN as soon as one argument is NaN
MathMin(xs) ==
    IF Len(xs) = 0 THEN Infinity
    ELSE IF \E i \in 1..Len(xs) : IsNaN(xs[i]) THEN NaN
    ELSE CHOOSE m \in {xs[i] : i \in 1..Len(xs)} :
             \A j \in 1..Len(xs) : m <= xs[j]

\* Math.ceil of a count of eighths, as a whole number
MathCeil(e) == -((-e) \div Unit)

MathFloor(e) == e \div Unit

----------------------------------------------------------------------------
(* Cells of a table.  t is the JavaScript type and shape of the value:     *)
(*   "txt"    a string that is not a number, s its text                    *)
(*   "numtxt" a string that reads as the number n/Quarter, such as "4.5"   *)
(*   "number" the number n/Quarter (Papa's dynamicTyping)                  *)
(*   "empty"  the empty string                                             *)
(*   "null"   null or undefined                                            *)

Txt(s) == [t |-> "txt", s |-> s, n |-> 0]
NumTxt(q) == [t |-> "numtxt", s |-> "", n |-> q]
Number(q) == [t |-> "number", s |-> "", n |-> q]
EmptyCell == [t |-> "empty", s |-> "", n |-> 0]
NullCell == [t |-> "null", s |-> "", n |-> 0]

\* truncation toward zero of a count of quarters
Trunc(q) == IF q >= 0 THEN q \div Quarter ELSE -((-q) \div Quarter)

ParseIntZero(cell) == IF cell.t \in {"numtxt", "number"} THEN Trunc(cell.n) ELSE 0

\* parseInt(score), line 41
ParseInt(cell) == IF cell.t \in {"numtxt", "number"} THEN Trunc(cell.n) ELSE NaN

\* parseFloat(row[13]) || 0, lines 39-40, as a count of eighths
ParseFloatOrZero(cell) ==
    IF cell.t \in {"numtxt", "number"} THEN (Unit \div Quarter) * cell.n ELSE 0

\* the truthiness of row[0], line 28
Truthy(cell) ==
    CASE cell.t = "txt" -> TRUE
      [] cell.t = "numtxt" -> TRUE
      [] cell.t = "number" -> cell.n # 0
      [] OTHER -> FALSE

\* cell === str for a string literal str that is no number
IsString(cell, str) ==
    \/ cell.t = "txt" /\ cell.s = str
    \/ cell.t = "empty" /\ str = ""

\* the strings of the model that contain "Pars"
ContainsPars(s) == s \in {"Pars", "Pars (white)"}

\* row[2]?.includes("Pars") where row[2] is a string, null or undefined
IncludesPars(cell) == cell.t = "txt" /\ ContainsPars(cell.s)

----------------------------------------------------------------------------
(* calculateStrokesReceived, lines 11-18; halfHandicap in eighths, *)
(* holeHandicap a whole number                                     *)

StrokesFloor(halfHandicap, holeHandicap) ==
    IF halfHandicap % Unit # 0
    THEN (IF holeHandicap <= MathFloor(halfHandicap) THEN 1 ELSE 0)
    ELSE (IF holeHandicap * Unit <= halfHandicap THEN 1 ELSE 0)

calculateStrokesReceived(halfHandicap, holeHandicap) ==
    IF halfHandicap % Unit # 0
    THEN (IF holeHandicap <= MathCeil(halfHandicap) THEN 1 ELSE 0)
    ELSE (IF holeHandicap * Unit <= halfHandicap THEN 1 ELSE 0)

----------------------------------------------------------------------------
(* analyzeSkins, lines 21-94.  A row is the record of the cells the code   *)
(* reads: c0 = row[0], c2 = row[2], sc = row.slice(3, 12), hc = row[13].   *)

ReservedTokens == {"Player", "HDCP", "PAR", ""}

\* lines 28-32: the conjuncts before row[2] is looked at
PassesNameTests(row) ==
    /\ Truthy(row.c0)
    /\ \A tok \in ReservedTokens : ~IsString(row.c0, tok)

\* line 33: a number has no includes method, so calling it is a TypeError
FilterThrows(data) ==
    \E i \in 1..Len(data) : PassesNameTests(data[i]) /\ data[i].c2.t = "number"

\* lines 26-34, on data for which the filter does not throw
IsPlayerRow(row) == PassesNameTests(row) /\ ~IncludesPars(row.c2)

playerRows(data) == SelectSeq(data, IsPlayerRow)

\* lines 37-42, one player object
PlayerOf(row) ==
    [name |-> row.c0.s,
     fullHandicap |-> ParseFloatOrZero(row.hc),
     halfHandicap |-> ParseFloatOrZero(row.hc) \div 2,
     scores |-> [i \in 1..NumHoles |-> ParseInt(row.sc[i])]]

\* lines 26-42: applied to the state left by earlier analyses
playerDataKeepsOld(data) ==
    players \o [i \in 1..Len(playerRows(data)) |-> PlayerOf(playerRows(data)[i])]

playerData(data) ==
    [i \in 1..Len(playerRows(data)) |-> PlayerOf(playerRows(data)[i])]

\* line 47
actualHoleHandicaps == <<4, 14, 16, 2, 18, 8, 6, 12, 10>>

NoWinner == "No Winner"

\* lines 59-69, holeIndex from 0: the entry of one player
NetScore(player, holeIndex) ==
    LET strokesReceived ==
            calculateStrokesReceived(player.halfHandicap,
                                     actualHoleHandicaps[holeIndex + 1])
        grossScore == player.scores[holeIndex + 1]
    IN  [name |-> player.name,
         gross |-> grossScore,
         net |-> Minus(grossScore, strokesReceived),
         strokes |-> strokesReceived]

HasGross(score) == ~IsNaN(score.gross)

netScoresSkipsNaN(pd, holeIndex) ==
    SelectSeq([i \in 1..Len(pd) |-> NetScore(pd[i], holeIndex)], HasGross)

\* lines 58-70
netScores(pd, holeIndex) == [i \in 1..Len(pd) |-> NetScore(pd[i], holeIndex)]

Nets(scores) == [i \in 1..Len(scores) |-> scores[i].net]

\* lines 73-90
HoleResultFirstOfTie(pd, holeIndex) ==
    LET scores == netScores(pd, holeIndex)
        lowestNet == MathMin(Nets(scores))
        IsLowest(s) == StrictEquals(s.net, lowestNet)
        winners == SelectSeq(scores, IsLowest)
    IN  IF Len(winners) >= 1
        THEN [winner |-> winners[1].name, value |-> 1, scores |-> scores]
        ELSE [winner |-> NoWinner, value |-> 0, scores |-> scores]

HoleResultTieCounts(pd, holeIndex) ==
    LET scores == netScores(pd, holeIndex)
        lowestNet == MathMin(Nets(scores))
        IsLowest(s) == StrictEquals(s.net, lowestNet)
        winners == SelectSeq(scores, IsLowest)
    IN  IF Len(winners) = 1
        THEN [winner |-> winners[1].name, value |-> 1, scores |-> scores]
        ELSE [winner |-> NoWinner, value |-> 1, scores |-> scores]

HoleResult(pd, holeIndex) ==
    LET scores == netScores(pd, holeIndex)
        lowestNet == MathMin(Nets(scores))
        IsLowest(s) == StrictEquals(s.net, lowestNet)
        winners == SelectSeq(scores, IsLowest)
    IN  IF Len(winners) = 1
        THEN [winner |-> winners[1].name, value |-> 1, scores |-> scores]
        ELSE [winner |-> NoWinner, value |-> 0, scores |-> scores]

\* lines 51-91: the object built by the loop
resultsSkipsLastHole(pd) == [h \in 1..(NumHoles - 1) |-> HoleResult(pd, h - 1)]

results(pd) == [h \in 1..NumHoles |-> HoleResult(pd, h - 1)]

\* lines 247-254: Total Skins by Player
RECURSIVE SumValues(_, _)
SumValues(res, holes) ==
    IF holes = {} THEN 0
    ELSE LET h == CHOOSE x \in holes : TRUE
         IN  res[h].value + SumValues(res, holes \ {h})

skinsWon(res, player) == {h \in DOMAIN res : res[h].winner = player.name}

totalValue(res, player) == SumValues(res, skinsWon(res, player))

\* the totals of the first n players, added up
RECURSIVE SumTotals(_, _, _)
SumTotals(res, pd, n) ==
    IF n = 0 THEN 0
    ELSE totalValue(res, pd[n]) + SumTotals(res, pd, n - 1)

----------------------------------------------------------------------------
(* Files.  A file is the sequence of its rows, each cell a string.         *)

Row(c0, c2, sc, hc) == [c0 |-> c0, c2 |-> c2, sc |-> sc, hc |-> hc]

\* gross scores 4 4 5 5 4 x 4.5 4 3
ScoresOne ==
    <<NumTxt(16), NumTxt(16), NumTxt(20), NumTxt(20), NumTxt(16),
      Txt("x"), NumTxt(18), NumTxt(16), NumTxt(12)>>

\* gross scores 4 5 4 4 5 4 5 (blank) 3
ScoresTwo ==
    <<NumTxt(16), NumTxt(20), NumTxt(16), NumTxt(16), NumTxt(20),
      NumTxt(16), NumTxt(20), EmptyCell, NumTxt(12)>>

ParsOfHoles == [i \in 1..NumHoles |-> NumTxt(16)]

HeaderRow == Row(Txt("Player"), Txt("Tee"), ParsOfHoles, Txt("HDCP"))
ParsRow == Row(Txt("St. Peters"), Txt("Pars"), ParsOfHoles, EmptyCell)
EmptyLine == Row(EmptyCell, EmptyCell, [i \in 1..NumHoles |-> EmptyCell], EmptyCell)
FlightRow == Row(Txt("B"), NumTxt(4), ScoresTwo, NumTxt(28))

\* the rows of the uploaded files: A with handicap 7, B with handicap "-",
\* a second A with handicap 4, and the course's row of pars
FileRows ==
    { Row(Txt("A"), EmptyCell, ScoresOne, NumTxt(28)),
      Row(Txt("B"), EmptyCell, ScoresTwo, Txt("-")),
      Row(Txt("A"), EmptyCell, ScoresTwo, NumTxt(16)),
      ParsRow }

RECURSIVE SeqsUpTo(_, _)
SeqsUpTo(S, n) ==
    IF n = 0 THEN {<<>>}
    ELSE LET shorter == SeqsUpTo(S, n - 1)
         IN  shorter \cup {Append(q, x) : q \in shorter, x \in S}

\* the files a user may upload
Files == SeqsUpTo(FileRows, MaxRows)

\* what "round_scores 18.csv" may hold
DefaultFiles ==
    { <<HeaderRow, ParsRow,
        Row(Txt("A"), EmptyCell, ScoresOne, NumTxt(28)),
        Row(Txt("B"), EmptyCell, ScoresTwo, Txt("-")), EmptyLine>>,
      <<HeaderRow, FlightRow>>,
      <<Row(Txt("B"), EmptyCell, ScoresOne, NumTxt(16))>> }

\* Papa.parse: dynamicTyping turns numeric strings into numbers and empty
\* strings into null; skipEmptyLines drops the lines that hold nothing
DynamicType(cell) ==
    CASE cell.t = "numtxt" -> Number(cell.n)
      [] cell.t = "empty" -> NullCell
      [] OTHER -> cell

TypeRow(row) ==
    Row(DynamicType(row.c0), DynamicType(row.c2),
        [i \in 1..Len(row.sc) |-> DynamicType(row.sc[i])], DynamicType(row.hc))

IsEmptyLine(row) == row = EmptyLine

NotEmptyLine(row) == ~IsEmptyLine(row)

PapaParse(file, dynamicTyping, skipEmptyLines) ==
    LET kept == IF skipEmptyLines THEN SelectSeq(file, NotEmptyLine) ELSE file
    IN  IF dynamicTyping THEN [i \in 1..Len(kept) |-> TypeRow(kept[i])] ELSE kept

----------------------------------------------------------------------------
(* The component *)

NoResults == [h \in {} |-> 0]

NoAnalysis == [src |-> "none", isProbe |-> FALSE, unparsable |-> {}]

Idle == [pc |-> "idle", about |-> NoAnalysis, pd |-> <<>>]

Unset == [set |-> FALSE, players |-> <<>>, results |-> NoResults, again |-> FALSE]

Outcome(pd, res) == [set |-> TRUE, players |-> pd, results |-> res, again |-> FALSE]

\* the score cells of the player rows of data that do not read as a number
Unparsable(data) ==
    {<<i, h>> \in (1..Len(playerRows(data))) \X (1..NumHoles) :
        playerRows(data)[i].sc[h].t \notin {"numtxt", "number"}}

About(src, data) ==
    [src |-> src, isProbe |-> (data = probe), unparsable |-> Unparsable(data)]

\* the input whose repeated analyses are compared
ProbeTables ==
    { <<Row(Txt("A"), EmptyCell, ScoresOne, NumTxt(28)),
        Row(Txt("B"), EmptyCell, ScoresTwo, Txt("-"))>> }

HalfHandicaps == (-Unit)..(MaxHalfHandicap * Unit)

HoleHandicaps == 1..MaxHoleHandicap

InitComponent ==
    /\ players = <<>>
    /\ skinsResults = NoResults
    /\ error = "null"
    /\ holeHandicaps = <<>>
    /\ defaultLoad = "pending"
    /\ uploadsInFlight = 0
    /\ cont = Idle
    /\ last = NoAnalysis
    /\ uploadOut = Unset
    /\ probeOut = Unset

Init ==
    /\ InitComponent
    /\ batching \in BOOLEAN
    /\ probe \in ProbeTables
    /\ halfHandicapArg = 0
    /\ holeHandicapArg = 1
    /\ strokesRet = <<>>

\* the history kept when an analysis has made its last state update
Completed(about, pd, res) ==
    /\ last' = about
    /\ uploadOut' = IF about.src = "upload" THEN Outcome(pd, res) ELSE uploadOut
    /\ probeOut' = IF ~about.isProbe THEN probeOut
                   ELSE IF probeOut.set THEN [probeOut EXCEPT !.again = TRUE]
                   ELSE Outcome(pd, res)

\* analyzeSkins(data), lines 21-94, on data the filter does not throw on.
\* Batched, the three state updates are one; unbatched, setPlayers (line 44)
\* is rendered before the next update is made.
analyzeSkins(src, data) ==
    LET pd == playerData(data)
    IN  /\ players' = pd
        /\ IF batching
           THEN /\ holeHandicaps' = actualHoleHandicaps
                /\ skinsResults' = results(pd)
                /\ cont' = Idle
                /\ Completed(About(src, data), pd, results(pd))
           ELSE /\ cont' = [pc |-> "setHoleHandicaps",
                            about |-> About(src, data), pd |-> pd]
                /\ UNCHANGED <<holeHandicaps, skinsResults, last, uploadOut,
                               probeOut>>

\* line 48, unbatched
SetHoleHandicaps ==
    /\ cont.pc = "setHoleHandicaps"
    /\ holeHandicaps' = actualHoleHandicaps
    /\ cont' = [cont EXCEPT !.pc = "setSkinsResults"]
    /\ UNCHANGED <<players, skinsResults, error, batching, defaultLoad,
                   uploadsInFlight, last, uploadOut, probe, probeOut>>
    /\ UNCHANGED strokeVars

\* lines 51-93, unbatched
SetSkinsResults ==
    /\ cont.pc = "setSkinsResults"
    /\ skinsResults' = results(cont.pd)
    /\ cont' = Idle
    /\ Completed(cont.about, cont.pd, results(cont.pd))
    /\ UNCHANGED <<players, holeHandicaps, error, batching, defaultLoad,
                   uploadsInFlight, probe>>
    /\ UNCHANGED strokeVars

\* handleFileUpload, lines 97-113: a file is chosen and Papa.parse starts
\* reading it
handleFileUpload ==
    /\ cont.pc = "idle"
    /\ uploadsInFlight < MaxInFlight
    /\ uploadsInFlight' = uploadsInFlight + 1
    /\ UNCHANGED <<players, skinsResults, error, holeHandicaps, batching,
                   defaultLoad, cont, last, uploadOut, probe, probeOut>>
    /\ UNCHANGED strokeVars

\* the complete callback, lines 101-107.  Without dynamicTyping every cell
\* is a string, so the filter never throws here and the catch is not taken.
UploadComplete ==
    /\ cont.pc = "idle"
    /\ uploadsInFlight > 0
    /\ uploadsInFlight' = uploadsInFlight - 1
    /\ \E file \in Files :
          LET data == PapaParse(file, FALSE, FALSE)
          IN  IF FilterThrows(data)
              THEN /\ error' = "Error parsing file"
                   /\ UNCHANGED <<players, skinsResults, holeHandicaps, cont,
                                  last, uploadOut, probeOut>>
              ELSE /\ analyzeSkins("upload", data)
                   /\ UNCHANGED error
    /\ UNCHANGED <<batching, defaultLoad, probe>>
    /\ UNCHANGED strokeVars

\* the error callback, lines 108-110
UploadError ==
    /\ cont.pc = "idle"
    /\ uploadsInFlight > 0
    /\ uploadsInFlight' = uploadsInFlight - 1
    /\ error' = "Error reading file"
    /\ UNCHANGED <<players, skinsResults, holeHandicaps, batching, defaultLoad,
                   cont, last, uploadOut, probe, probeOut>>
    /\ UNCHANGED strokeVars

\* loadDefaultData after readFile resolves, lines 122-129
DefaultLoadResolved ==
    /\ cont.pc = "idle"
    /\ defaultLoad = "pending"
    /\ defaultLoad' = "done"
    /\ \E file \in DefaultFiles :
          LET data == PapaParse(file, TRUE, TRUE)
          IN  IF FilterThrows(data)
              THEN UNCHANGED <<players, skinsResults, holeHandicaps, cont,
                               last, uploadOut, probeOut>>
              ELSE analyzeSkins("default", data)
    /\ UNCHANGED <<error, batching, uploadsInFlight, probe>>
    /\ UNCHANGED strokeVars

\* loadDefaultData when readFile rejects, lines 127-129
DefaultLoadRejected ==
    /\ cont.pc = "idle"
    /\ defaultLoad = "pending"
    /\ defaultLoad' = "done"
    /\ UNCHANGED <<players, skinsResults, error, holeHandicaps, batching,
                   uploadsInFlight, cont, last, uploadOut, probe, probeOut>>
    /\ UNCHANGED strokeVars

Next ==
    \/ handleFileUpload
    \/ UploadComplete
    \/ UploadError
    \/ DefaultLoadResolved
    \/ DefaultLoadRejected
    \/ SetHoleHandicaps
    \/ SetSkinsResults

Spec == Init /\ [][Next]_vars

----------------------------------------------------------------------------
(* calculateStrokesReceived on its own *)

InitStrokes ==
    /\ InitComponent
    /\ batching = TRUE
    /\ probe = <<>>
    /\ halfHandicapArg \in HalfHandicaps
    /\ holeHandicapArg \in HoleHandicaps
    /\ strokesRet = <<>>

CallStrokes ==
    /\ strokesRet = <<>>
    /\ strokesRet' = <<calculateStrokesReceived(halfHandicapArg, holeHandicapArg)>>
    /\ UNCHANGED <<halfHandicapArg, holeHandicapArg>>
    /\ UNCHANGED componentVars

NextStrokes == CallStrokes

SpecStrokes == InitStrokes /\ [][NextStrokes]_vars

----------------------------------------------------------------------------
(* Properties *)

\* an analysis has made all its state updates and none is under way
Done == cont.pc = "idle" /\ last.src # "none"

Holes == DOMAIN skinsResults

ScoreIndexes(h) == 1..Len(skinsResults[h].scores)

\* the players whose net score on hole h no other net score is below
LowestOn(h) ==
    {i \in ScoreIndexes(h) :
        \A j \in ScoreIndexes(h) :
            skinsResults[h].scores[i].net <= skinsResults[h].scores[j].net}

AllGrossNumeric(h) ==
    \A i \in ScoreIndexes(h) : skinsResults[h].scores[i].gross # NaN

\* C1: on every hole with at least one player and only integer gross scores,
\* each net score is gross minus strokes received, and the hole has value 1
\* and the name of the player with the lowest net score as winner exactly
\* when one player alone has the lowest net score; otherwise the value is 0
\* and the winner is "No Winner".
C1_SoleLowestNetWins ==
    \A h \in Holes :
        (ScoreIndexes(h) # {} /\ AllGrossNumeric(h)) =>
            LET r == skinsResults[h]
            IN  /\ \A i \in ScoreIndexes(h) :
                       /\ r.scores[i].strokes \in {0, 1}
                       /\ r.scores[i].net = r.scores[i].gross - r.scores[i].strokes
                /\ IF Cardinality(LowestOn(h)) = 1
                   THEN /\ r.value = 1
                        /\ \A i \in LowestOn(h) : r.winner = r.scores[i].name
                   ELSE /\ r.value = 0
                        /\ r.winner = "No Winner"

\* two players with integer scores: one hole won alone, another one tied
C1_Witness ==
    /\ Done
    /\ \E h \in Holes :
          /\ Len(skinsResults[h].scores) = 2 /\ AllGrossNumeric(h)
          /\ Cardinality(LowestOn(h)) = 1 /\ skinsResults[h].value = 1
    /\ \E h \in Holes :
          /\ Len(skinsResults[h].scores) = 2 /\ AllGrossNumeric(h)
          /\ Cardinality(LowestOn(h)) = 2 /\ skinsResults[h].value = 0

\* the least whole number that is no less than e eighths
CeilOf(e) ==
    CHOOSE c \in (-1)..(MaxHalfHandicap + 1) :
        c * 8 >= e /\ (c - 1) * 8 < e

\* C2: calculateStrokesReceived returns 0 or 1; it returns 1 exactly when
\* holeDifficulty <= ceil(halfHandicap) for a halfHandicap that is no
\* integer, and exactly when holeDifficulty <= halfHandicap for one that is;
\* halfHandicap 4.5 gives 1 on difficulty 5 and 0 on difficulty 6.
C2_StrokeRule ==
    strokesRet # <<>> =>
        LET r == strokesRet[1]
            isInteger == \E k \in (-1)..MaxHalfHandicap : halfHandicapArg = 8 * k
        IN  /\ r \in {0, 1}
            /\ r = 1 <=> IF isInteger
                         THEN 8 * holeHandicapArg <= halfHandicapArg
                         ELSE holeHandicapArg <= CeilOf(halfHandicapArg)
            /\ (halfHandicapArg = 36 /\ holeHandicapArg = 5) => r = 1
            /\ (halfHandicapArg = 36 /\ holeHandicapArg = 6) => r = 0

\* halfHandicap 4.5 on the hole of difficulty 5
C2_Witness ==
    halfHandicapArg = 36 /\ holeHandicapArg = 5 /\ strokesRet = <<1>>

\* C3: when row extraction yields no player, the analysis raises an error
\* and the stored results stay empty.
C3_EmptyPlayerSetRaises ==
    (Done /\ players = <<>>) => (error # "null" /\ Holes = {})

\* C4: a gross score that does not parse as an integer is carried as NaN, in
\* the gross and in the net score, and its player is not the winner of that
\* hole.
C4_UnparsableScoreNeverWins ==
    Done =>
        \A ih \in last.unparsable :
            LET r == skinsResults[ih[2]]
            IN  /\ r.scores[ih[1]].gross = NaN
                /\ r.scores[ih[1]].net = NaN
                /\ r.winner # r.scores[ih[1]].name

\* two players, one of them with a score that is no number
C4_Witness ==
    /\ Done
    /\ Len(players) = 2
    /\ \E ih \in last.unparsable :
          \E j \in 1..2 : skinsResults[ih[2]].scores[j].gross # NaN

NamesDistinct ==
    \A i, j \in 1..Len(players) : players[i].name = players[j].name => i = j

SumOfSkinValues == SumValues(skinsResults, Holes)

SumOfPlayerTotals == SumTotals(skinsResults, players, Len(players))

\* C5 as stated: after the analysis of any table, the skin values of the
\* nine holes add up to the sum of the players' totals.
C5_ValuesEqualTotals == Done => SumOfSkinValues = SumOfPlayerTotals

\* C5 amended: the same, for the tables whose players have distinct names.
C5_ValuesEqualTotalsDistinctNames ==
    (Done /\ NamesDistinct) => SumOfSkinValues = SumOfPlayerTotals

\* two players of different names, and skins won
C5_Witness ==
    /\ Done /\ NamesDistinct
    /\ Len(players) = 2
    /\ SumOfSkinValues >= 2
    /\ \E h \in Holes : skinsResults[h].value = 0

\* C6: whenever the error message is set, the stored results are empty.
C6_ErrorHidesResults == error # "null" => Holes = {}

PlayerNames == {players[i].name : i \in 1..Len(players)}

\* C7: after a completed analysis the results have exactly the keys 1..9,
\* and every winner is the name of a stored player or "No Winner".
C7_OneResultPerHole ==
    Done =>
        /\ Holes = 1..9
        /\ \A h \in Holes :
              skinsResults[h].winner \in PlayerNames \cup {"No Winner"}

\* holes with a winner and holes without one
C7_Witness ==
    /\ Done
    /\ \E h \in Holes : skinsResults[h].winner \in PlayerNames
    /\ \E h \in Holes : skinsResults[h].winner = "No Winner"

\* C8: every analysis of the probe table leaves the players and results
\* that its first analysis left, whatever was stored before.
C8_SameInputSameOutcome ==
    (Done /\ last.isProbe) =>
        /\ probeOut.set
        /\ players = probeOut.players
        /\ skinsResults = probeOut.results

\* the probe analysed again, after an error was raised
C8_Witness ==
    Done /\ last.isProbe /\ probeOut.again /\ error # "null"

\* C9: once the analysis of an uploaded file has been applied, the stored
\* players and results are those of the last uploaded file.  Stated for the
\* uploads that have players, so that a violation does not rest on the
\* analysis of an empty player set (C3).
C9_UploadNotOverwritten ==
    (cont.pc = "idle" /\ uploadOut.set /\ uploadOut.players # <<>>) =>
        /\ players = uploadOut.players
        /\ skinsResults = uploadOut.results

\* every hole's scores list has one entry per stored player, same names,
\* same order
Aligned ==
    \A h \in Holes :
        /\ Len(skinsResults[h].scores) = Len(players)
        /\ \A i \in 1..Len(players) :
              skinsResults[h].scores[i].name = players[i].name

HavePlayers ==
    /\ players # <<>>
    /\ \A h \in Holes : skinsResults[h].scores # <<>>

\* C10 as stated: the stored players and results line up in every state,
\* also between the setPlayers and setSkinsResults of one analysis.  Stated
\* for the states whose players and results are not empty, so that a
\* violation does not rest on the analysis of an empty player set (C3).
C10_AlwaysAligned == HavePlayers => Aligned

\* C10 amended: they line up in every state in which no analysis is between
\* its state updates.
C10_AlignedWhenIdle == cont.pc = "idle" => Aligned

\* an unbatched analysis of two players has completed
C10_Witness ==
    /\ Done /\ ~batching
    /\ Len(players) = 2
    /\ Holes # {}

====
